---- MODULE Spec2Model ----
(***************************************************************************)
(* Model of src/src/simulated_web_agent/main/experiment.py.                *)
(*                                                                         *)
(* Spec (and FairSpec, the same batch under the event loop's scheduling)   *)
(* is experiment_async: the semaphore gate, one run_one task per input     *)
(* entry, the progress tick under the lock and the gather barrier.  There  *)
(* the runner _run_for_persona_and_intent is followed from await to await  *)
(* with what the batch can observe of it: whether it raised, whether its   *)
(* try block failed, the state of its env.close() call and what it         *)
(* returned.                                                               *)
(*                                                                         *)
(* RunnerSpec is one call of _run_for_persona_and_intent with the session  *)
(* files it writes.                                                        *)
(*                                                                         *)
(* TokenSpec is _generate_token_report called on a trace store, and        *)
(* PricingSpec is get_pricing of cost_calculator.py called on a model name.*)
(*                                                                         *)
(* Every await of the source is a point where another task may run; the    *)
(* code between two awaits is one action.  The calls to the external       *)
(* collaborators (WebAgentEnv, AgentPolicy, on_progress) return or raise   *)
(* nondeterministically.                                                   *)
(***************************************************************************)
EXTENDS Naturals, Integers, Sequences, FiniteSets

\* Bounds of the model.
MaxSessions == 3
MaxConcurrency == 2
MaxSteps == 2
LiveSessions == 2
MaxRecords == 2
MaxCalls == 2
MaxNameLen == 3
MaxFiles == 2
MaxSequence == 10

VARIABLES
    total,          \* len(agents)                               (line 363)
    concurrency,    \* the concurrency argument, K               (line 352)
    max_steps,      \* the max_steps argument                    (line 347)
    on_progress,    \* TRUE iff an on_progress callback is given (line 353)
    callback,       \* what a call of on_progress does: "returns", "raises"
    sem,            \* value of asyncio.Semaphore(concurrency)   (line 361)
    lock,           \* holder of asyncio.Lock(), 0 when free     (line 365)
    done,           \* the shared progress counter               (line 364)
    pc,             \* position of every run_one task
    steps_taken,    \* the step counter of every runner          (line 157)
    failure,        \* which part of a runner's try block raised, or "none"
    closeCall,      \* every session's env.close() call          (line 331)
    trace_dir,      \* run_one's local trace_dir                 (line 375)
    outcome,        \* result or exception of every run_one task
    progressCalls,  \* the first arguments of the on_progress calls, in order
    barrier,        \* "pending" until gather resolves           (line 394)
    results,        \* the list experiment_async returns         (line 398)
    runner,         \* one call of _run_for_persona_and_intent   (RunnerSpec)
    aggregation,    \* calls of _generate_token_report           (TokenSpec)
    lookup,         \* one call of get_pricing                   (PricingSpec)
    traversal       \* listings of an api_trace directory        (TraversalSpec)

vars == <<total, concurrency, max_steps, on_progress, callback, sem, lock,
          done, pc,
          steps_taken, failure, closeCall, trace_dir, outcome, progressCalls,
          barrier, results, runner, aggregation, lookup, traversal>>

inputs == <<total, concurrency, max_steps, on_progress, callback>>

\* The calls followed one at a time by the specifications of their own.
calls == <<runner, aggregation, lookup, traversal>>

Sessions == 1..total

\* The value the runner returns for session i (line 335).
TraceDir(i) == <<"trace_dir", i>>

\* The exception a task ends with when its runner raises; gather hands it
\* over as a result (line 394, return_exceptions=True).
Raised(i) == <<"exception", i>>

NoResult == <<"none", 0>>

\* A session file: a top-level file of the trace directory (k = 0) or the
\* file of step index k in one of its subdirectories.
File(name, k) == <<name, k>>

\* An operation of the step loop in the iteration of step index k.
Op(name, k) == <<name, k>>

\* ------------------------------------------------ _generate_token_report

\* A JSON value read with .get: an integer, a key that is missing, or a value
\* of another type (a string, a list, null under a present key).
Num(n) == <<"int", n>>
Missing == <<"missing", 0>>
Other == <<"other", 0>>

\* The value of data.get("usage") (line 58): a dict with its three counts,
\* a falsy value (key missing, null, {}), or a truthy value that is no dict.
Usage(p, c, t) ==
    [shape |-> "dict", prompt_tokens |-> p, completion_tokens |-> c,
     total_tokens |-> t]
NoUsage == [Usage(Missing, Missing, Missing) EXCEPT !.shape = "falsy"]
OtherUsage == [Usage(Missing, Missing, Missing) EXCEPT !.shape = "other"]

\* The content of one file api_trace_<n>.json: a JSON object with its
\* method_name ("missing" when the key is absent), usage and cost (in units
\* of 10^-6 USD); a JSON value that is no object; or bytes json.load rejects.
Record(k, m, u, c) == [kind |-> k, method_name |-> m, usage |-> u, cost |-> c]
Unparseable == Record("unparseable", "missing", NoUsage, Missing)
NonObject == Record("nonobject", "missing", NoUsage, Missing)

\* The method names of the records of the model, and the key used for a
\* record without method_name (line 54).
MethodNames == {"chat", "embed"}
MethodKeys == MethodNames \cup {"unknown"}

\* Records as the client writes them: method_name, usage and cost each
\* present or absent.
ValidRecords ==
    {Record("object", m, u, c) :
        m \in MethodNames \cup {"missing"},
        u \in {NoUsage, Usage(Num(1), Num(1), Num(2)),
               Usage(Num(2), Num(1), Missing)},
        c \in {Missing, Num(3)}}

\* Files that are not records of an API call: content that does not parse,
\* JSON that is no object, an object whose usage is no dict, an object with
\* a count that is no number.
MalformedRecords ==
    {Unparseable, NonObject,
     Record("object", "chat", OtherUsage, Num(3)),
     Record("object", "chat", Usage(Num(1), Other, Num(2)), Num(3))}

Records == ValidRecords \cup MalformedRecords

\* The decimal digits of n, most significant first.
RECURSIVE Digits(_)
Digits(n) == IF n < 10 THEN <<n>> ELSE Append(Digits(n \div 10), n % 10)

\* The characters of "api_trace_<n>.json" from the number on, as far as
\* they decide a comparison: the digits, then ".", which sorts before
\* every digit.
NameKey(n) == Append([k \in 1..Len(Digits(n)) |-> Digits(n)[k] + 1], 0)

\* Comparison of two strings, character by character.
RECURSIVE StrLess(_, _)
StrLess(a, b) ==
    IF b = <<>> THEN FALSE
    ELSE IF a = <<>> THEN TRUE
    ELSE IF Head(a) # Head(b) THEN Head(a) < Head(b)
    ELSE StrLess(Tail(a), Tail(b))

\* sorted(api_trace_dir.glob("api_trace_*.json")) (line 46): the numbers of
\* the n files api_trace_1.json .. api_trace_<n>.json in the order of their
\* paths.
Sorted(n) ==
    [p \in 1..n |->
        CHOOSE k \in 1..n :
           Cardinality({j \in 1..n : StrLess(NameKey(j), NameKey(k))}) = p - 1]

\* The locals of lines 38-43.
ZeroTotals ==
    [api_calls |-> 0, total_prompt_tokens |-> 0,
     total_completion_tokens |-> 0, total_tokens |-> 0, total_cost |-> 0,
     method_calls |-> [m \in MethodKeys |-> 0]]

\* dict.get(key, 0).
Get(v) == IF v = Missing THEN Num(0) ELSE v

\* Lines 66-68: a truthy cost is added; adding a value that is no number
\* raises and leaves the sum as it was.
AddCost(acc, cost) ==
    IF cost[1] = "int" THEN [acc EXCEPT !.total_cost = @ + cost[2]] ELSE acc

\* Lines 59-64, then the cost: the three counts are added in the order
\* prompt, completion, total; the first count that is no number raises
\* TypeError, and what was added before it stays added.
AddUsage(acc, u, cost) ==
    LET p == Get(u.prompt_tokens)
        c == Get(u.completion_tokens)
        t == Get(u.total_tokens)
        a1 == [acc EXCEPT !.total_prompt_tokens = @ + p[2]]
        a2 == [a1 EXCEPT !.total_completion_tokens = @ + c[2]]
        a3 == [a2 EXCEPT !.total_tokens = @ + t[2]]
    IN  IF p[1] # "int" THEN acc
        ELSE IF c[1] # "int" THEN a1
        ELSE IF t[1] # "int" THEN a2
        ELSE AddCost(a3, cost)

\* Mutant of ReadRecord: the tokens of a call are prompt plus completion.
ReadRecordSumsParts(acc, rec) ==
    IF rec.kind # "object" THEN acc
    ELSE LET m == IF rec.method_name = "missing" THEN "unknown"
                  ELSE rec.method_name
             a == [acc EXCEPT !.api_calls = @ + 1, !.method_calls[m] = @ + 1]
             p == Get(rec.usage.prompt_tokens)[2]
             c == Get(rec.usage.completion_tokens)[2]
         IN  AddCost([a EXCEPT !.total_prompt_tokens = @ + p,
                               !.total_completion_tokens = @ + c,
                               !.total_tokens = @ + p + c], rec.cost)

\* The body of the try block for one file (lines 48-68) with its except
\* clause (lines 69-70): json.load raises on content that does not parse;
\* the call is counted; data.get raises on a value that is no object; the
\* method is counted; usage.get raises on a truthy usage that is no dict.
\* An exception ends the reading of the file and keeps what was counted.
ReadRecord(acc, rec) ==
    IF rec.kind = "unparseable" THEN acc
    ELSE LET a1 == [acc EXCEPT !.api_calls = @ + 1]
             m == IF rec.method_name = "missing" THEN "unknown"
                  ELSE rec.method_name
             a2 == [a1 EXCEPT !.method_calls[m] = @ + 1]
         IN  IF rec.kind # "object" THEN a1
             ELSE IF rec.usage.shape = "falsy" THEN AddCost(a2, rec.cost)
             ELSE IF rec.usage.shape = "other" THEN a2
             ELSE AddUsage(a2, rec.usage, rec.cost)

\* The loop of lines 46-70 over the first k files of the sorted listing.
RECURSIVE ReadFiles(_, _)
ReadFiles(store, k) ==
    IF k = 0 THEN ZeroTotals
    ELSE ReadRecord(ReadFiles(store, k - 1), store[Sorted(Len(store))[k]])

\* format_cost (cost_calculator.py, lines 125-131): the number of digits
\* after the point grows as the cost gets smaller; cost in 10^-6 USD.
format_cost(cost) ==
    <<"$", cost, IF cost < 1000 THEN 6 ELSE IF cost < 10000 THEN 5 ELSE 4>>

\* The report of lines 72-82; empty is TRUE for the dict {} of line 36.
ReportOf(totals, isEmpty) ==
    [empty |-> isEmpty,
     api_calls |-> totals.api_calls,
     total_prompt_tokens |-> totals.total_prompt_tokens,
     total_completion_tokens |-> totals.total_completion_tokens,
     total_tokens |-> totals.total_tokens,
     total_cost |-> totals.total_cost,
     total_cost_formatted |-> format_cost(totals.total_cost),
     method_calls |-> totals.method_calls]

EmptyReport == ReportOf(ZeroTotals, TRUE)

\* _generate_token_report(trace_dir) (lines 24-82); dir tells whether
\* trace_dir/api_trace exists, store[n] is the content of api_trace_<n>.json.
_generate_token_report(dir, store) ==
    IF ~dir THEN EmptyReport
    ELSE ReportOf(ReadFiles(store, Len(store)), FALSE)

\* Mutant of StoreAfterRead: the files are opened for writing.
StoreAfterReadTruncated(store) == [k \in 1..Len(store) |-> Unparseable]

\* with open(api_trace_file, "r") (line 48): the files are opened for
\* reading, the call writes nothing.
StoreAfterRead(store) == store

\* The trace store and the calls of _generate_token_report made on it: the
\* last report and the store it was read from.
AggregationAt(p, d, s) ==
    [pc |-> p, dir |-> d, store |-> s, calls |-> 0, report |-> EmptyReport,
     read |-> <<>>]

IdleAggregation == AggregationAt("idle", FALSE, <<>>)

\* ----------------------------------------- get_pricing (cost_calculator.py)

\* A string is the sequence of its characters.  MODEL_PRICING (lines 10-75)
\* in the order of the dict, the rates in 1/100 USD per million tokens.
MODEL_PRICING ==
  <<
    \* "openai/gpt-4o-mini" (line 11)
    [key |-> <<"o", "p", "e", "n", "a", "i", "/", "g", "p", "t", "-", "4", "o",
           "-", "m", "i", "n", "i">>,
     input |-> 15, output |-> 60],
    \* "gpt-4o-mini" (line 15)
    [key |-> <<"g", "p", "t", "-", "4", "o", "-", "m", "i", "n", "i">>,
     input |-> 15, output |-> 60],
    \* "openai/gpt-5" (line 19)
    [key |-> <<"o", "p", "e", "n", "a", "i", "/", "g", "p", "t", "-", "5">>,
     input |-> 1500, output |-> 6000],
    \* "gpt-5" (line 23)
    [key |-> <<"g", "p", "t", "-", "5">>,
     input |-> 1500, output |-> 6000],
    \* "openai/gpt-5-mini" (line 27)
    [key |-> <<"o", "p", "e", "n", "a", "i", "/", "g", "p", "t", "-", "5", "-",
           "m", "i", "n", "i">>,
     input |-> 15, output |-> 60],
    \* "gpt-5-mini" (line 31)
    [key |-> <<"g", "p", "t", "-", "5", "-", "m", "i", "n", "i">>,
     input |-> 15, output |-> 60],
    \* "claude-sonnet-4-20250514" (line 36)
    [key |-> <<"c", "l", "a", "u", "d", "e", "-", "s", "o", "n", "n", "e", "t",
           "-", "4", "-", "2", "0", "2", "5", "0", "5", "1", "4">>,
     input |-> 300, output |-> 1500],
    \* "claude-sonnet-4" (line 40)
    [key |-> <<"c", "l", "a", "u", "d", "e", "-", "s", "o", "n", "n", "e", "t",
           "-", "4">>,
     input |-> 300, output |-> 1500],
    \* "bedrock/global.anthropic.claude-sonnet-4-5-20250929-v1:0" (line 44)
    [key |-> <<"b", "e", "d", "r", "o", "c", "k", "/", "g", "l", "o", "b", "a",
           "l", ".", "a", "n", "t", "h", "r", "o", "p", "i", "c", ".", "c",
           "l", "a", "u", "d", "e", "-", "s", "o", "n", "n", "e", "t", "-",
           "4", "-", "5", "-", "2", "0", "2", "5", "0", "9", "2", "9", "-",
           "v", "1", ":", "0">>,
     input |-> 300, output |-> 1500],
    \* "bedrock/claude-sonnet-4" (line 48)
    [key |-> <<"b", "e", "d", "r", "o", "c", "k", "/", "c", "l", "a", "u", "d",
           "e", "-", "s", "o", "n", "n", "e", "t", "-", "4">>,
     input |-> 300, output |-> 1500],
    \* "bedrock/global.anthropic.claude-haiku-4-5-20251001-v1:0" (line 53)
    [key |-> <<"b", "e", "d", "r", "o", "c", "k", "/", "g", "l", "o", "b", "a",
           "l", ".", "a", "n", "t", "h", "r", "o", "p", "i", "c", ".", "c",
           "l", "a", "u", "d", "e", "-", "h", "a", "i", "k", "u", "-", "4",
           "-", "5", "-", "2", "0", "2", "5", "1", "0", "0", "1", "-", "v",
           "1", ":", "0">>,
     input |-> 80, output |-> 400],
    \* "claude-haiku-4-5" (line 57)
    [key |-> <<"c", "l", "a", "u", "d", "e", "-", "h", "a", "i", "k", "u", "-",
           "4", "-", "5">>,
     input |-> 80, output |-> 400],
    \* "openai/text-embedding-3-small" (line 62)
    [key |-> <<"o", "p", "e", "n", "a", "i", "/", "t", "e", "x", "t", "-", "e",
           "m", "b", "e", "d", "d", "i", "n", "g", "-", "3", "-", "s", "m",
           "a", "l", "l">>,
     input |-> 2, output |-> 0],
    \* "text-embedding-3-small" (line 66)
    [key |-> <<"t", "e", "x", "t", "-", "e", "m", "b", "e", "d", "d", "i", "n",
           "g", "-", "3", "-", "s", "m", "a", "l", "l">>,
     input |-> 2, output |-> 0],
    \* "bedrock/cohere.embed-english-v3" (line 70)
    [key |-> <<"b", "e", "d", "r", "o", "c", "k", "/", "c", "o", "h", "e", "r",
           "e", ".", "e", "m", "b", "e", "d", "-", "e", "n", "g", "l", "i",
           "s", "h", "-", "v", "3">>,
     input |-> 10, output |-> 0]
  >>

\* Python's `t in s` for strings: t occurs in s as a contiguous run; the
\* empty string occurs in every string.
Contains(s, t) ==
    \E i \in 0..(Len(s) - Len(t)) : SubSeq(s, i + 1, i + Len(t)) = t

\* The rates of an entry as get_pricing returns them; warning tells
\* whether the warning was printed.
Rates(entry) == [input |-> entry.input, output |-> entry.output,
                 warning |-> FALSE]

\* Lines 96-98: the warning and the default rates.
DefaultRates == [input |-> 100, output |-> 100, warning |-> TRUE]

\* Mutant of PartialMatch: only a name contained in a key matches.
PartialMatchKeyContainsName(model_name, model_key) ==
    Contains(model_key, model_name)

\* The condition of line 93.
PartialMatch(model_name, model_key) ==
    Contains(model_key, model_name) \/ Contains(model_name, model_key)

\* get_pricing(model_name) (lines 77-98): the entry of the exact key
\* (lines 88-89), else the first entry in the order of the dict whose key
\* matches in part (lines 92-94), else the default.
get_pricing(model_name) ==
    LET n == Len(MODEL_PRICING)
        exact == {k \in 1..n : MODEL_PRICING[k].key = model_name}
        part == {k \in 1..n : PartialMatch(model_name, MODEL_PRICING[k].key)}
    IN  IF exact # {} THEN Rates(MODEL_PRICING[CHOOSE k \in exact : TRUE])
        ELSE IF part # {}
        THEN Rates(MODEL_PRICING[CHOOSE k \in part :
                                    \A j \in part : k <= j])
        ELSE DefaultRates

\* One call of get_pricing: its argument and, once it returned, its result.
LookupAt(p, name) == [pc |-> p, model_name |-> name, result |-> DefaultRates]

IdleLookup == LookupAt("idle", <<>>)

\* ------------------------------------- listings of api_trace_<n>.json files

\* A file matched by glob("api_trace_*.json"): the number in its name when
\* the part after "api_trace_" is a number (numeric), and whether its
\* content parses as JSON.
TraceFile(n, isNumber, isJson) ==
    [seq |-> n, numeric |-> isNumber, parses |-> isJson]

\* The characters that decide where the path of a file sorts: those of its
\* number, or a letter, which sorts after every digit.
PathKey(f) == IF f.numeric THEN NameKey(f.seq) ELSE <<11, 0>>

\* The order of sorted() on paths, and with the key of the tools.
PathLess(f, g) == StrLess(PathKey(f), PathKey(g))
NumberLess(f, g) == f.seq < g.seq

\* The files of a set, sorted by number or by path.
SortedBy(files, byNumber) ==
    [p \in 1..Cardinality(files) |->
        CHOOSE f \in files :
           Cardinality({g \in files :
              IF byNumber THEN NumberLess(g, f) ELSE PathLess(g, f)}) = p - 1]

\* The outcome of a listing: not made, made with the files read in their
\* order, or ended by an exception.
Listing(st, files) == [state |-> st, visited |-> files]

\* The files a loop reads of a sorted listing: json.load raises on a file
\* that does not parse, inside try/except, and the loop goes on
\* (experiment.py lines 47-70, generate_api_summary.py lines 20-25,
\* format_api_trace.py lines 129-147).
ReadEach(sorted) == SelectSeq(sorted, LAMBDA f : f.parses)

\* for api_trace_file in sorted(api_trace_dir.glob("api_trace_*.json"))
\* (experiment.py line 46): the paths are sorted as strings.
AggregatorListing(files) == Listing("done", ReadEach(SortedBy(files, FALSE)))

\* sorted(api_trace_dir.glob("api_trace_*.json"),
\*        key=lambda x: int(x.stem.split('_')[2]))
\* (generate_api_summary.py line 18, format_api_trace.py line 124): int
\* raises ValueError on a name without a number, outside any try; else the
\* files are sorted by number.
ToolListing(files) ==
    IF \E f \in files : ~f.numeric THEN Listing("raised", <<>>)
    ELSE Listing("done", ReadEach(SortedBy(files, TRUE)))

\* An api_trace directory and the listings made of it by
\* _generate_token_report, load_api_traces and format_api_trace_files.
TraversalAt(p, files) ==
    [pc |-> p, files |-> files,
     aggregator |-> Listing("none", <<>>),
     load_api_traces |-> Listing("none", <<>>),
     format_api_trace_files |-> Listing("none", <<>>)]

IdleTraversal == TraversalAt("idle", {})

\* The record of one runner call: its position, its parameters
\* (persona_info has both keys, max_steps, env_setup_hook given), its locals
\* (steps_taken, policy bound, obs), its environment, the files written so
\* far, the records of API calls in trace_dir/api_trace, the content of
\* token_report.json, whether the report of the except clause raised, the
\* writes of per-step files in the order they were made, the operations of
\* the step loop in the order they were made, and what the call gave back.
RunnerAt(p, ok, m, h) ==
    [pc |-> p, entry_ok |-> ok, max_steps |-> m, hook |-> h,
     steps_taken |-> 0, policy |-> FALSE, obs |-> "none", env |-> "none",
     closeAttempts |-> 0, failure |-> "none", files |-> {},
     store |-> <<>>, token_report |-> EmptyReport, report_error |-> FALSE,
     log |-> <<>>, ops |-> <<>>,
     result |-> NoResult]

\* The runner of RunnerSpec while the batch is modelled.
IdleRunner == RunnerAt("idle", TRUE, 0, FALSE)

InitWith(maxN) ==
    /\ total \in 1..maxN
    /\ concurrency \in 1..MaxConcurrency
    /\ max_steps = MaxSteps
    /\ on_progress \in BOOLEAN
    /\ callback = "returns"
    /\ sem = concurrency
    /\ lock = 0
    /\ done = 0
    /\ pc = [i \in 1..total |-> "pending"]
    /\ steps_taken = [i \in 1..total |-> 0]
    /\ failure = [i \in 1..total |-> "none"]
    /\ closeCall = [i \in 1..total |-> "none"]
    /\ trace_dir = [i \in 1..total |-> NoResult]
    /\ outcome = [i \in 1..total |-> NoResult]
    /\ progressCalls = <<>>
    /\ barrier = "pending"
    /\ results = <<>>
    /\ runner = IdleRunner
    /\ aggregation = IdleAggregation
    /\ lookup = IdleLookup
    /\ traversal = IdleTraversal

Init == InitWith(MaxSessions)

\* ---------------------------------------------------------------- gate

\* Mutant of SemFree: any waiting session may take a free slot.
SemFreeUnordered(i) == sem > 0

\* Mutant of SemFree: the value of the semaphore is not consulted.
SemFreeUngated(i) == \A j \in Sessions : j < i => pc[j] # "pending"

\* asyncio.Semaphore.acquire: a slot is free; waiters are woken in the order
\* the tasks were created (line 392), so no session overtakes an earlier one.
SemFree(i) ==
    /\ sem > 0
    /\ \A j \in Sessions : j < i => pc[j] # "pending"

\* run_one entering `async with sem` (line 374).
Admit(i) ==
    /\ pc[i] = "pending"
    /\ SemFree(i)
    /\ sem' = sem - 1
    /\ pc' = [pc EXCEPT ![i] = "entry"]
    /\ UNCHANGED <<inputs, lock, done, steps_taken, failure, closeCall,
                   trace_dir, outcome, progressCalls, barrier, results,
                   calls>>

\* --------------------------------------------- the runner, seen by the batch

\* Mutant of Fail: the runner of a failed session is started again.
FailRetried(i, cause) ==
    /\ failure' = [failure EXCEPT ![i] = cause]
    /\ steps_taken' = [steps_taken EXCEPT ![i] = 0]
    /\ pc' = [pc EXCEPT ![i] = "entry"]
    /\ closeCall' = closeCall

\* An error inside the try block: except Exception (lines 305-327), then the
\* finally block up to the await of env.close (lines 328-331).  The step
\* counter is not read after the loop.
Fail(i, cause) ==
    /\ failure' = [failure EXCEPT ![i] = cause]
    /\ steps_taken' = [steps_taken EXCEPT ![i] = 0]
    /\ pc' = [pc EXCEPT ![i] = "closing"]
    /\ closeCall' = [closeCall EXCEPT ![i] = "running"]

\* A runner that raises leaves `async with sem`, which releases the slot
\* (line 374); the tick (lines 383-389) is skipped and the task ends with
\* the exception.
Escape(i) ==
    /\ sem' = sem + 1
    /\ pc' = [pc EXCEPT ![i] = "raised"]
    /\ outcome' = [outcome EXCEPT ![i] = Raised(i)]

\* The runner from its first line to the await of env.setup (lines 126-215).
Enter(i) ==
    /\ pc[i] = "entry"
    /\ \/ \* persona_info lacks "persona" or "intent" (lines 126-127), or
          \* WebAgentEnv(...) raises (line 181): both are outside the try
          /\ Escape(i)
          /\ UNCHANGED <<steps_taken, failure, closeCall>>
       \/ \* AgentPolicy(persona, intent) raises (line 213)
          /\ Fail(i, "setup")
          /\ UNCHANGED <<sem, outcome>>
       \/ \* env and policy are constructed, env.setup is awaited (line 215)
          /\ pc' = [pc EXCEPT ![i] = "setup"]
          /\ UNCHANGED <<sem, outcome, steps_taken, failure, closeCall>>
    /\ UNCHANGED <<inputs, lock, done, trace_dir, progressCalls, barrier,
                   results, calls>>

\* env.setup returns or raises; then env.observation is awaited
\* (lines 215-225; run_one passes no wait_for_login and no env_setup_hook).
Setup(i) ==
    /\ pc[i] = "setup"
    /\ \/ Fail(i, "setup")
       \/ /\ pc' = [pc EXCEPT ![i] = "observe"]
          /\ UNCHANGED <<steps_taken, failure, closeCall>>
    /\ UNCHANGED <<inputs, sem, lock, done, trace_dir, outcome, progressCalls,
                   barrier, results, calls>>

\* The end of the try block (lines 278-303) and the start of the finally
\* block: env.close is awaited (line 331).
Finish(i) ==
    /\ steps_taken' = [steps_taken EXCEPT ![i] = 0]
    /\ pc' = [pc EXCEPT ![i] = "closing"]
    /\ closeCall' = [closeCall EXCEPT ![i] = "running"]
    /\ UNCHANGED failure

\* env.observation returns the initial observation or raises (line 225);
\* the loop condition is evaluated for the first time (line 230).
Observe(i) ==
    /\ pc[i] = "observe"
    /\ \/ Fail(i, "step")
       \/ IF steps_taken[i] < max_steps
          THEN /\ pc' = [pc EXCEPT ![i] = "step"]
               /\ UNCHANGED <<steps_taken, failure, closeCall>>
          ELSE Finish(i)
    /\ UNCHANGED <<inputs, sem, lock, done, trace_dir, outcome, progressCalls,
                   barrier, results, calls>>

\* One iteration of the step loop (lines 230-276): env.page.content,
\* policy.forward and env.step are awaited; then either the next iteration
\* or, when the observation reports termination or the budget is used up,
\* the end of the try block.
Step(i) ==
    /\ pc[i] = "step"
    /\ \/ \* env.page.content, policy.forward or env.step raises
          Fail(i, "step")
       \/ \* the action is applied; terminated is obs.get("terminated")
          \E terminated \in BOOLEAN :
             IF ~terminated /\ steps_taken[i] + 1 < max_steps
             THEN /\ steps_taken' = [steps_taken EXCEPT ![i] = @ + 1]
                  /\ UNCHANGED <<pc, failure, closeCall>>
             ELSE Finish(i)
    /\ UNCHANGED <<inputs, sem, lock, done, trace_dir, outcome, progressCalls,
                   barrier, results, calls>>

\* The environment fails to finish env.close within the deadline.
EnvHangs(i) ==
    /\ pc[i] = "closing"
    /\ closeCall[i] = "running"
    /\ closeCall' = [closeCall EXCEPT ![i] = "overdue"]
    /\ UNCHANGED <<inputs, sem, lock, done, pc, steps_taken, failure,
                   trace_dir, outcome, progressCalls, barrier, results,
                   calls>>

\* Mutant of DeadlineExpires: env.close() awaited without a deadline.
DeadlineNever(call) == FALSE

\* asyncio.wait_for(..., timeout=10) (line 331) raises TimeoutError when the
\* shielded env.close() has not finished in time.
DeadlineExpires(call) == call = "overdue"

\* The runner leaves the finally block and returns trace_dir (lines 332-335);
\* `async with sem` releases the slot and run_one goes on to the tick
\* (line 383).
Return(i) ==
    /\ trace_dir' = [trace_dir EXCEPT ![i] = TraceDir(i)]
    /\ sem' = sem + 1
    /\ pc' = [pc EXCEPT ![i] = "tick"]

\* env.close() returns, or raises and is logged, within the deadline
\* (lines 331-334).
CloseEnds(i) ==
    /\ pc[i] = "closing"
    /\ closeCall[i] = "running"
    /\ closeCall' = [closeCall EXCEPT ![i] = "finished"]
    /\ Return(i)
    /\ UNCHANGED <<inputs, lock, done, steps_taken, failure, outcome,
                   progressCalls, barrier, results, calls>>

\* The deadline expires and TimeoutError is logged (lines 333-334); the
\* shield leaves env.close() running in the background.
CloseTimeout(i) ==
    /\ pc[i] = "closing"
    /\ DeadlineExpires(closeCall[i])
    /\ Return(i)
    /\ UNCHANGED <<inputs, lock, done, steps_taken, failure, closeCall,
                   outcome, progressCalls, barrier, results, calls>>

\* A shielded env.close() that outlived its deadline finishes later.
LateClose(i) ==
    /\ pc[i] # "closing"
    /\ closeCall[i] = "overdue"
    /\ closeCall' = [closeCall EXCEPT ![i] = "finished"]
    /\ UNCHANGED <<inputs, sem, lock, done, pc, steps_taken, failure,
                   trace_dir, outcome, progressCalls, barrier, results,
                   calls>>

\* ---------------------------------------------------------------- tick

\* Mutant of LockFree: the tick is entered without the lock.
LockIgnored == TRUE

\* asyncio.Lock.acquire succeeds only on a free lock.
LockFree == lock = 0

\* `async with lock` is entered and done += 1 (lines 383-384).
Tick(i) ==
    /\ pc[i] = "tick"
    /\ LockFree
    /\ lock' = i
    /\ done' = done + 1
    /\ pc' = [pc EXCEPT ![i] = "notify"]
    /\ UNCHANGED <<inputs, sem, steps_taken, failure, closeCall, trace_dir,
                   outcome, progressCalls, barrier, results, calls>>

\* Mutant of NotifyEnds: an exception of the callback leaves `async with
\* lock`, which releases the lock, and ends the task.
NotifyEndsRaising(i) ==
    /\ lock' = 0
    /\ outcome' = [outcome EXCEPT ![i] = IF on_progress /\ callback = "raises"
                                         THEN Raised(i) ELSE trace_dir[i]]
    /\ pc' = [pc EXCEPT ![i] = IF on_progress /\ callback = "raises"
                               THEN "raised" ELSE "done"]

\* The call of on_progress has returned, or has raised into except
\* Exception: pass (lines 388-389); the lock is released and run_one returns
\* trace_dir (line 390).
NotifyEnds(i) ==
    /\ lock' = 0
    /\ outcome' = [outcome EXCEPT ![i] = trace_dir[i]]
    /\ pc' = [pc EXCEPT ![i] = "done"]

\* on_progress(done, total) if a callback is given, whatever it raises being
\* swallowed (lines 385-389); the lock is released and run_one returns
\* trace_dir (line 390).
Notify(i) ==
    /\ pc[i] = "notify"
    /\ progressCalls' = IF on_progress THEN Append(progressCalls, done)
                        ELSE progressCalls
    /\ NotifyEnds(i)
    /\ UNCHANGED <<inputs, sem, done, steps_taken, failure, closeCall,
                   trace_dir, barrier, results, calls>>

\* ------------------------------------------------------------- barrier

TaskDone(i) == pc[i] \in {"done", "raised"}

\* Mutant of GatherReady: gather without return_exceptions, which hands the
\* first exception of a task to its caller at once.
GatherReadyFirstException ==
    \/ \A i \in Sessions : TaskDone(i)
    \/ \E i \in Sessions : pc[i] = "raised"

\* asyncio.gather(*tasks, return_exceptions=True) resolves when every task
\* has finished (line 394).
GatherReady == \A i \in Sessions : TaskDone(i)

\* Mutant of GatherResults: the exceptions are filtered out of the list.
GatherResultsDropRaised ==
    SelectSeq([i \in 1..total |-> outcome[i]], LAMBDA r : r[1] # "exception")

\* The list gather resolves with: the outcome of task i at position i.
GatherResults == [i \in 1..total |-> outcome[i]]

\* Lines 394-398.
Gather ==
    /\ barrier = "pending"
    /\ GatherReady
    /\ results' = GatherResults
    /\ barrier' = "resolved"
    /\ UNCHANGED <<inputs, sem, lock, done, pc, steps_taken, failure,
                   closeCall, trace_dir, outcome, progressCalls, calls>>

\* ---------------------------------------------------------------- spec

\* The steps the event loop takes: every ready task is eventually run and
\* every timer eventually fires.
Progress ==
    \/ \E i \in Sessions : Admit(i)
    \/ \E i \in Sessions : Enter(i)
    \/ \E i \in Sessions : Setup(i)
    \/ \E i \in Sessions : Observe(i)
    \/ \E i \in Sessions : Step(i)
    \/ \E i \in Sessions : CloseEnds(i)
    \/ \E i \in Sessions : CloseTimeout(i)
    \/ \E i \in Sessions : Tick(i)
    \/ \E i \in Sessions : Notify(i)
    \/ Gather

\* The steps of the environment, which may or may not happen.
Environment ==
    \/ \E i \in Sessions : EnvHangs(i)
    \/ \E i \in Sessions : LateClose(i)

Next == Progress \/ Environment

Spec == Init /\ [][Next]_vars

\* The batch under the event loop's scheduling.
FairSpec == InitWith(LiveSessions) /\ [][Next]_vars /\ WF_vars(Progress)

\* A batch whose on_progress callback is given and raises at every call
\* or at none.
CallbackInit ==
    /\ total \in 1..LiveSessions
    /\ concurrency \in 1..MaxConcurrency
    /\ max_steps = MaxSteps
    /\ on_progress = TRUE
    /\ callback \in {"returns", "raises"}
    /\ sem = concurrency
    /\ lock = 0
    /\ done = 0
    /\ pc = [i \in 1..total |-> "pending"]
    /\ steps_taken = [i \in 1..total |-> 0]
    /\ failure = [i \in 1..total |-> "none"]
    /\ closeCall = [i \in 1..total |-> "none"]
    /\ trace_dir = [i \in 1..total |-> NoResult]
    /\ outcome = [i \in 1..total |-> NoResult]
    /\ progressCalls = <<>>
    /\ barrier = "pending"
    /\ results = <<>>
    /\ runner = IdleRunner
    /\ aggregation = IdleAggregation
    /\ lookup = IdleLookup
    /\ traversal = IdleTraversal

CallbackSpec == CallbackInit /\ [][Next]_vars /\ WF_vars(Progress)

\* ------------------------------------------- _run_for_persona_and_intent

gateVars == <<total, concurrency, max_steps, on_progress, callback, sem,
              lock, done, pc, steps_taken, failure, closeCall, trace_dir,
              outcome, progressCalls, barrier, results>>

\* No batch: RunnerSpec follows a single call of the runner.
RunnerInit ==
    /\ total = 0
    /\ concurrency = 1
    /\ max_steps = 0
    /\ on_progress = FALSE
    /\ callback = "returns"
    /\ sem = 1
    /\ lock = 0
    /\ done = 0
    /\ pc = <<>>
    /\ steps_taken = <<>>
    /\ failure = <<>>
    /\ closeCall = <<>>
    /\ trace_dir = <<>>
    /\ outcome = <<>>
    /\ progressCalls = <<>>
    /\ barrier = "pending"
    /\ results = <<>>
    /\ \E ok \in BOOLEAN, m \in 0..MaxSteps, h \in BOOLEAN :
          runner = RunnerAt("start", ok, m, h)
    /\ aggregation = IdleAggregation
    /\ lookup = IdleLookup
    /\ traversal = IdleTraversal

\* AgentPolicy (main/model.py) gives its instances the attribute run_path,
\* the session's directory.
PolicyHasRunPath == TRUE

\* (policy.run_path / "error.txt").write_text(err) inside try/except
\* (lines 308-311): the file is written when the name policy is bound; with
\* policy unbound the NameError is swallowed and nothing is written.
RunnerErrorFile(r) ==
    IF r.policy /\ PolicyHasRunPath THEN {File("error", 0)} ELSE {}

\* The finally block up to the await (lines 328-331).
StartClose(r) ==
    [r EXCEPT !.pc = "closing", !.env = "closing", !.closeAttempts = @ + 1]

\* The records an API call of the policy may leave in trace_dir/api_trace.
RunnerRecords ==
    {Record("object", "chat", Usage(Num(1), Num(1), Num(2)), Num(3)),
     Unparseable}

\* _save_token_report(trace_dir, report) (lines 85-99): an empty report is
\* not saved, any other is written to token_report.json.
_save_token_report(r, report) ==
    IF report.empty THEN r
    ELSE [r EXCEPT !.files = @ \cup {File("token_report", 0)},
                   !.token_report = report]

\* The report of the session's records, generated and saved (lines 264-270,
\* 292-293, 314-315); trace_dir/api_trace exists since line 147.
ReportTokens(r) == _save_token_report(r, _generate_token_report(TRUE, r.store))

\* Mutant of RunnerFail: env.close() is called on the success path only.
RunnerFailNoClose(r, cause) ==
    [ReportTokens([r EXCEPT !.failure = cause,
                            !.files = @ \cup RunnerErrorFile(r)])
        EXCEPT !.pc = "returned", !.result = TraceDir(0)]

\* Mutant of RunnerFail: the except clause writes the error file only.
RunnerFailNoReport(r, cause) ==
    StartClose([r EXCEPT !.failure = cause,
                         !.files = @ \cup RunnerErrorFile(r)])

\* except Exception (lines 305-327): the error text goes to error.txt, the
\* token report of the records present is generated and saved; then the
\* finally block.
RunnerFail(r, cause) ==
    StartClose(ReportTokens([r EXCEPT !.failure = cause,
                                      !.files = @ \cup RunnerErrorFile(r)]))

\* The except clause when generating or saving the report raises: the
\* error is swallowed (lines 326-327), token_report.json stays as it was;
\* then the finally block.
RunnerFailUnreported(r, cause) ==
    StartClose([r EXCEPT !.failure = cause,
                         !.files = @ \cup RunnerErrorFile(r),
                         !.report_error = TRUE])

\* The ways the except clause can end.
Failed(r, cause) == {RunnerFail(r, cause), RunnerFailUnreported(r, cause)}

\* Mutant of Finalize: the final transcript is not written.
FinalizeNoTranscript(r) == StartClose(ReportTokens(r))

\* Lines 278-303: the final transcript and the final token report are
\* written; then the finally block.
Finalize(r) ==
    StartClose(ReportTokens([r EXCEPT !.files = @ \cup {File("transcript", 0)}]))

\* Mutant of LoopTop: the loop runs while steps_taken <= max_steps.
LoopTopOverrun(r) ==
    IF r.steps_taken <= r.max_steps
    THEN [r EXCEPT !.files = @ \cup {File("observation_trace.jsonl", 0),
                                     File("simp_html", r.steps_taken)},
                   !.log = Append(@, File("simp_html", r.steps_taken)),
                   !.ops = Append(@, Op("observation", r.steps_taken)),
                   !.pc = "content"]
    ELSE Finalize(r)

\* Mutant of LoopTop: the file name does not carry the step index.
LoopTopOneFile(r) ==
    IF r.steps_taken < r.max_steps
    THEN [r EXCEPT !.files = @ \cup {File("observation_trace.jsonl", 0),
                                     File("simp_html", 0)},
                   !.log = Append(@, File("simp_html", 0)),
                   !.ops = Append(@, Op("observation", r.steps_taken)),
                   !.pc = "content"]
    ELSE Finalize(r)

\* The loop condition (line 230) and the body up to its first await
\* (lines 231-243): the observation is appended to observation_trace.jsonl
\* and simp_html_<steps_taken> is written.
LoopTop(r) ==
    IF r.steps_taken < r.max_steps
    THEN [r EXCEPT !.files = @ \cup {File("observation_trace.jsonl", 0),
                                     File("simp_html", r.steps_taken)},
                   !.log = Append(@, File("simp_html", r.steps_taken)),
                   !.ops = Append(@, Op("observation", r.steps_taken)),
                   !.pc = "content"]
    ELSE Finalize(r)

\* Lines 126-215, to the await of env.setup.
RunnerStart ==
    /\ runner.pc = "start"
    /\ \/ \* persona_info["persona"] or ["intent"] raises KeyError
          /\ ~runner.entry_ok
          /\ runner' = [runner EXCEPT !.pc = "raised", !.result = Raised(0)]
       \/ \* the directories and basic_info.json are written (lines 145-155),
          \* then WebAgentEnv(...) raises (line 181)
          /\ runner.entry_ok
          /\ runner' = [runner EXCEPT !.pc = "raised", !.result = Raised(0),
                                      !.files = {File("basic_info", 0)}]
       \/ \* AgentPolicy(persona, intent) raises (line 213)
          /\ runner.entry_ok
          /\ runner' \in Failed([runner EXCEPT !.env = "open",
                                     !.files = {File("basic_info", 0)}],
                                  "setup")
       \/ /\ runner.entry_ok
          /\ runner' = [runner EXCEPT !.env = "open", !.policy = TRUE,
                                      !.files = {File("basic_info", 0)},
                                      !.pc = "setup"]
    /\ UNCHANGED <<gateVars, aggregation, lookup, traversal>>

\* env.setup returns or raises (line 215); the hook, if given, is awaited
\* (lines 223-224), else env.observation (line 225).
RunnerSetup ==
    /\ runner.pc = "setup"
    /\ \/ runner' \in Failed(runner, "setup")
       \/ runner' = [runner EXCEPT !.pc = IF runner.hook THEN "hook"
                                                         ELSE "observe"]
    /\ UNCHANGED <<gateVars, aggregation, lookup, traversal>>

\* env_setup_hook(env) returns or raises (line 224).
RunnerHook ==
    /\ runner.pc = "hook"
    /\ \/ runner' \in Failed(runner, "setup")
       \/ runner' = [runner EXCEPT !.pc = "observe"]
    /\ UNCHANGED <<gateVars, aggregation, lookup, traversal>>

\* env.observation returns the initial observation or raises (line 225).
RunnerObserve ==
    /\ runner.pc = "observe"
    /\ \/ runner' \in Failed(runner, "step")
       \/ \E o \in {"live", "terminated"} :
             runner' = LoopTop([runner EXCEPT !.obs = o])
    /\ UNCHANGED <<gateVars, aggregation, lookup, traversal>>

\* env.page.content returns or raises (line 243); raw_html_<steps_taken> is
\* written and policy.forward is awaited (line 246).
RunnerContent ==
    /\ runner.pc = "content"
    /\ \/ runner' \in Failed(runner, "step")
       \/ runner' = [runner EXCEPT
                       !.files = @ \cup {File("raw_html", runner.steps_taken)},
                       !.log = Append(@, File("raw_html", runner.steps_taken)),
                       !.ops = @ \o <<Op("snapshot", runner.steps_taken),
                                      Op("forward", runner.steps_taken)>>,
                       !.pc = "forward"]
    /\ UNCHANGED <<gateVars, aggregation, lookup, traversal>>

\* Mutant of LoopOps: the live report follows env.step.
LoopOpsReportLast(k) ==
    <<Op("action_trace", k), Op("memory_trace", k), Op("step", k),
      Op("token_report", k)>>

\* Lines 247-272 in the order of the source: the action trace and the
\* memory trace are rewritten, the live token report is generated and
\* saved, env.step(action) is called.
LoopOps(k) ==
    <<Op("action_trace", k), Op("memory_trace", k), Op("token_report", k),
      Op("step", k)>>

\* policy.forward (line 246) makes its API calls, each leaving a record in
\* trace_dir/api_trace, and returns the action or raises; the action trace,
\* the observation record of the step, the memory trace and the live token
\* report are written (lines 247-270) and env.step is awaited.
RunnerForward ==
    /\ runner.pc = "forward"
    /\ \E recs \in {<<>>} \cup {<<rec>> : rec \in RunnerRecords} :
          LET r == [runner EXCEPT !.store = @ \o recs]
          IN  \/ runner' \in Failed(r, "step")
              \/ runner' = [ReportTokens(r) EXCEPT
                              !.files = @ \cup {File("action_trace", 0),
                                                File("observation_trace",
                                                     runner.steps_taken),
                                                File("memory_trace", 0)},
                              !.log = Append(@, File("observation_trace",
                                                     runner.steps_taken)),
                              !.ops = @ \o LoopOps(runner.steps_taken),
                              !.pc = "step"]
    /\ UNCHANGED <<gateVars, aggregation, lookup, traversal>>

\* env.step has returned the observation o (line 272): the action is
\* applied and the counter incremented (line 273).
Stepped(r, o) ==
    [r EXCEPT !.obs = o,
              !.ops = @ \o <<Op("applied", r.steps_taken),
                             Op("increment", r.steps_taken)>>,
              !.steps_taken = @ + 1]

\* env.step returns the next observation or raises (line 272); the counter
\* is incremented and the loop is left on termination (lines 273-276).
RunnerStep ==
    /\ runner.pc = "step"
    /\ \/ runner' \in Failed(runner, "step")
       \/ runner' = LoopTop(Stepped(runner, "live"))
       \/ runner' = Finalize(Stepped(runner, "terminated"))
    /\ UNCHANGED <<gateVars, aggregation, lookup, traversal>>

\* The end of the finally block and return trace_dir (lines 332-335), with
\* the state env.close() left the environment in.
RunnerReturn(r, e) ==
    [r EXCEPT !.pc = "returned", !.env = e, !.result = TraceDir(0)]

\* env.close() returns within the deadline (lines 331-332).
RunnerCloseReturns ==
    /\ runner.pc = "closing"
    /\ runner' = RunnerReturn(runner, "closed")
    /\ UNCHANGED <<gateVars, aggregation, lookup, traversal>>

\* Mutant of RunnerCloseFailed: the error of env.close() leaves the runner.
RunnerCloseEscapes(r, e) ==
    [r EXCEPT !.pc = "raised", !.env = e, !.result = Raised(0)]

\* except Exception of the finally block (lines 333-334): the error is
\* logged and the runner goes on to return trace_dir.
RunnerCloseFailed(r, e) == RunnerReturn(r, e)

\* env.close() raises.
RunnerCloseRaises ==
    /\ runner.pc = "closing"
    /\ runner' = RunnerCloseFailed(runner, "closefailed")
    /\ UNCHANGED <<gateVars, aggregation, lookup, traversal>>

\* env.close() does not finish within 10 seconds: wait_for raises
\* TimeoutError and the shielded call goes on in the background.
RunnerCloseTimeout ==
    /\ runner.pc = "closing"
    /\ runner' = RunnerCloseFailed(runner, "hung")
    /\ UNCHANGED <<gateVars, aggregation, lookup, traversal>>

RunnerNext ==
    \/ RunnerStart
    \/ RunnerSetup
    \/ RunnerHook
    \/ RunnerObserve
    \/ RunnerContent
    \/ RunnerForward
    \/ RunnerStep
    \/ RunnerCloseReturns
    \/ RunnerCloseRaises
    \/ RunnerCloseTimeout

RunnerSpec == RunnerInit /\ [][RunnerNext]_vars

\* ------------------------------- _generate_token_report on a trace store

\* No batch and no runner: the specifications of a single function.
NoBatch ==
    /\ total = 0
    /\ concurrency = 1
    /\ max_steps = 0
    /\ on_progress = FALSE
    /\ callback = "returns"
    /\ sem = 1
    /\ lock = 0
    /\ done = 0
    /\ pc = <<>>
    /\ steps_taken = <<>>
    /\ failure = <<>>
    /\ closeCall = <<>>
    /\ trace_dir = <<>>
    /\ outcome = <<>>
    /\ progressCalls = <<>>
    /\ barrier = "pending"
    /\ results = <<>>
    /\ runner = IdleRunner

\* The trace stores of up to n files api_trace_1.json .. api_trace_<k>.json.
Stores(n) == UNION {[1..k -> Records] : k \in 0..n}

\* A trace directory with or without its api_trace subdirectory (line 35),
\* holding any store.
TokenInit ==
    /\ NoBatch
    /\ lookup = IdleLookup
    /\ traversal = IdleTraversal
    /\ \E d \in BOOLEAN, s \in Stores(MaxRecords) :
          aggregation = AggregationAt("ready", d, IF d THEN s ELSE <<>>)

\* A call of _generate_token_report(trace_dir) (lines 24-82).
Aggregate ==
    /\ aggregation.pc = "ready"
    /\ aggregation.calls < MaxCalls
    /\ aggregation' =
          [aggregation EXCEPT
              !.report = _generate_token_report(aggregation.dir,
                                                aggregation.store),
              !.read = aggregation.store,
              !.store = StoreAfterRead(@),
              !.calls = @ + 1]
    /\ UNCHANGED <<gateVars, runner, lookup, traversal>>

\* Between two reports the API client adds the record of a further call
\* (the live report of lines 264-270 follows every policy.forward).
Persist ==
    /\ aggregation.pc = "ready"
    /\ aggregation.dir
    /\ Len(aggregation.store) < MaxRecords
    /\ \E rec \in Records :
          aggregation' = [aggregation EXCEPT !.store = Append(@, rec)]
    /\ UNCHANGED <<gateVars, runner, lookup, traversal>>

TokenNext == Aggregate \/ Persist

TokenSpec == TokenInit /\ [][TokenNext]_vars

\* ------------------------------------------------------------ get_pricing

\* The model names looked up: every key of the table; every key with a
\* character put before it, put after it, or in place of its last one; and
\* every run of up to MaxNameLen characters of a key, the empty string
\* among them.
ModelNames ==
    LET keys == {MODEL_PRICING[k].key : k \in 1..Len(MODEL_PRICING)}
    IN  keys
        \cup {<<ch>> \o key : ch \in {"x", "/"}, key \in keys}
        \cup {key \o <<ch>> : ch \in {"x", "-"}, key \in keys}
        \cup {[key EXCEPT ![Len(key)] = "z"] : key \in keys}
        \cup UNION {{SubSeq(key, i, i + n - 1) : i \in 1..(Len(key) - n + 1)} :
                       key \in keys, n \in 0..MaxNameLen}

PricingInit ==
    /\ NoBatch
    /\ aggregation = IdleAggregation
    /\ traversal = IdleTraversal
    /\ \E name \in ModelNames : lookup = LookupAt("call", name)

\* The call get_pricing(model_name) returns (lines 77-98).
GetPricing ==
    /\ lookup.pc = "call"
    /\ lookup' = [lookup EXCEPT !.pc = "returned",
                                !.result = get_pricing(lookup.model_name)]
    /\ UNCHANGED <<gateVars, runner, aggregation, traversal>>

PricingNext == GetPricing

PricingSpec == PricingInit /\ [][PricingNext]_vars

\* ------------------------------------------- listings of a trace directory

\* The directories of up to MaxFiles files numbered within 1..MaxSequence,
\* each parsing or not, with or without one more file whose name has no
\* number.
Directories ==
    LET numbers == {ns \in SUBSET (1..MaxSequence) : Cardinality(ns) <= MaxFiles}
        unnumbered == {{}} \cup {{TraceFile(0, FALSE, j)} : j \in BOOLEAN}
    IN  UNION {{{TraceFile(n, TRUE, n \notin bad) : n \in ns} \cup u :
                   bad \in SUBSET ns, u \in unnumbered} : ns \in numbers}

TraversalInit ==
    /\ NoBatch
    /\ aggregation = IdleAggregation
    /\ lookup = IdleLookup
    /\ \E d \in Directories : traversal = TraversalAt("ready", d)

\* The loop of _generate_token_report (experiment.py lines 46-70).
AggregatorTraversal ==
    /\ traversal.pc = "ready"
    /\ traversal.aggregator.state = "none"
    /\ traversal' = [traversal EXCEPT
                        !.aggregator = AggregatorListing(traversal.files)]
    /\ UNCHANGED <<gateVars, runner, aggregation, lookup>>

\* load_api_traces (generate_api_summary.py lines 15-27).
LoadApiTraces ==
    /\ traversal.pc = "ready"
    /\ traversal.load_api_traces.state = "none"
    /\ traversal' = [traversal EXCEPT
                        !.load_api_traces = ToolListing(traversal.files)]
    /\ UNCHANGED <<gateVars, runner, aggregation, lookup>>

\* format_api_trace_files on an existing api_trace directory
\* (format_api_trace.py lines 123-149).
FormatApiTraceFiles ==
    /\ traversal.pc = "ready"
    /\ traversal.format_api_trace_files.state = "none"
    /\ traversal' = [traversal EXCEPT
                        !.format_api_trace_files =
                            ToolListing(traversal.files)]
    /\ UNCHANGED <<gateVars, runner, aggregation, lookup>>

TraversalNext == AggregatorTraversal \/ LoadApiTraces \/ FormatApiTraceFiles

TraversalSpec == TraversalInit /\ [][TraversalNext]_vars

\* -------------------------------------------------------------- claims

\* A session holds an admission slot from `async with sem` until its runner
\* returns or raises.
Holding(i) == pc[i] \in {"entry", "setup", "observe", "step", "closing"}

\* The session has left the gate.
Left(i) == pc[i] \in {"tick", "notify", "done", "raised"}

\* Active as C1 words it: admitted, and the environment's close has not yet
\* finished.
Active(i) == Holding(i) \/ closeCall[i] = "overdue"

\* C1 as stated: in every reachable state at most K sessions are active,
\* active meaning admitted with env.close not yet finished.
C1_AtMostKActive == Cardinality({i \in Sessions : Active(i)}) <= concurrency

\* C1 amended: at most K sessions hold an admission slot (are between their
\* admission and the return of their runner), and a session beyond the
\* first K is admitted only once an earlier one has left the gate.
C1_AtMostKHoldSlot ==
    /\ Cardinality({i \in Sessions : Holding(i)}) <= concurrency
    /\ \A i \in Sessions :
          (i > concurrency /\ pc[i] # "pending")
             => \E j \in Sessions : j < i /\ Left(j)

\* Batch of 3 with K = 2: the third session runs beside one of the first
\* two after the other has left.
C1_Witness ==
    /\ total = 3
    /\ concurrency = 2
    /\ pc[3] = "setup"
    /\ Cardinality({i \in Sessions : Holding(i)}) = 2

\* C2: when experiment_async returns, every task has finished, every
\* runner that returned has had its env.close waited for, and results holds
\* exactly one outcome per input session, the one of session i at
\* position i.
C2_BarrierOrdered ==
    barrier = "resolved" =>
       /\ \A i \in Sessions : TaskDone(i)
       /\ \A i \in Sessions :
             pc[i] = "done" => closeCall[i] \in {"finished", "overdue"}
       /\ Len(results) = total
       /\ \A i \in Sessions : results[i] \in {TraceDir(i), Raised(i)}

\* A resolved batch of three holding both kinds of outcome.
C2_Witness ==
    /\ barrier = "resolved"
    /\ total = 3
    /\ results[1] = Raised(1)
    /\ results[2] = TraceDir(2)
    /\ results[3] = TraceDir(3)

\* Every session has its outcome in the resolved barrier.
AllDelivered ==
    /\ barrier = "resolved"
    /\ Len(results) = total
    /\ \A j \in Sessions : TaskDone(j) /\ results[j] # NoResult

\* C3: once a session has failed while observing, deciding or applying an
\* action, every session of the batch still finishes and the barrier
\* resolves with N outcomes.
C3_FailureIsolated == (\E i \in Sessions : failure[i] = "step") ~> AllDelivered

\* A failed session beside one that ran to the end without failing.
C3_Witness ==
    /\ AllDelivered
    /\ total = 2
    /\ failure[1] = "step"
    /\ failure[2] = "none"
    /\ results[2] = TraceDir(2)

\* C4 as stated: when the barrier resolves, done equals total.
C4_DoneEqualsTotal == barrier = "resolved" => done = total

\* What C5 says of a state: the counter is within 0..total, at most one
\* session is between its increment and its on_progress call, and the
\* calls made so far received 1, 2, 3, ... in this order.
C5_State ==
    /\ done \in 0..total
    /\ Cardinality({i \in Sessions : pc[i] = "notify"}) <= 1
    /\ \A i \in Sessions : pc[i] = "notify" => lock = i
    /\ progressCalls = [k \in 1..Len(progressCalls) |-> k]
    /\ on_progress =>
          Len(progressCalls) = done - Cardinality({i \in Sessions : pc[i] = "notify"})

\* C5: the progress counter changes only by +1, in a step that holds the
\* lock; it never exceeds total, and on_progress receives 1, 2, 3, ...
\* without repetition or gap.
C5_CounterUnderLock ==
    /\ []C5_State
    /\ [][done' # done => (done' = done + 1 /\ lock = 0 /\ lock' # 0)]_vars

\* One session is inside the critical section while another waits for it.
C5_Witness ==
    /\ on_progress
    /\ Len(progressCalls) >= 1
    /\ \E i, j \in Sessions : pc[i] = "notify" /\ pc[j] = "tick"

\* C7: with K >= 1 and every setup, decision and step call returning or
\* raising, the barrier eventually resolves, also when env.close() of some
\* sessions never returns.
C7_BarrierResolves == <>(barrier = "resolved")

\* The barrier resolved although a close outlived its deadline while
\* another session was waiting for the slot.
C7_Witness ==
    /\ barrier = "resolved"
    /\ total > concurrency
    /\ closeCall[1] = "overdue"
    /\ pc[2] = "done"

\* C9 as stated: the outcome delivered for a session whose try block
\* failed is the captured failure, not the value a successful session
\* delivers.
C9_FailureDelivered ==
    barrier = "resolved" =>
       \A i \in Sessions : failure[i] # "none" => results[i][1] = "exception"

\* C6: a runner that returns has called env.close() exactly once, whether
\* the environment reported termination, the budget ran out, or setup or a
\* step failed; env.close() is never called twice.
C6_CloseOnce ==
    /\ runner.closeAttempts <= 1
    /\ runner.pc = "returned" => runner.closeAttempts = 1
    /\ runner.pc \in {"start", "setup", "hook", "observe", "content",
                      "forward", "step"} => runner.closeAttempts = 0

\* A runner that failed during a step has returned.
C6_Witness ==
    /\ runner.pc = "returned"
    /\ runner.failure = "step"
    /\ runner.steps_taken = 1
    /\ runner.closeAttempts = 1

\* C8: however the wait for env.close() ends (return, error, timeout), the
\* runner returns trace_dir and leaves the session's files, its outcome
\* and its counters as they were when the close was issued.
C8_TeardownSilent ==
    [][runner.pc = "closing" =>
          runner' = [runner EXCEPT !.pc = "returned",
                                   !.result = TraceDir(0),
                                   !.env = runner'.env]]_vars

\* A runner has returned after env.close() raised.
C8_Witness ==
    /\ runner.pc = "returned"
    /\ runner.env = "closefailed"
    /\ runner.failure = "none"
    /\ runner.result = TraceDir(0)
    /\ File("transcript", 0) \in runner.files

\* C10 as stated: when the runner returns, the error file exists if and
\* only if the try block raised (during policy construction, setup or a
\* step).
C10_ErrorFileIffFailed ==
    runner.pc = "returned" =>
       (runner.failure # "none" <=> File("error", 0) \in runner.files)

\* C11: once the try block of a runner has failed, the except clause has
\* gone on to teardown (env.close() called once) whether or not generating
\* the report raised; and unless it raised, token_report.json holds the
\* report aggregated over all API-call records present at the failure.
C11_PartialReport ==
    runner.failure # "none" =>
       /\ runner.pc \in {"closing", "returned"}
       /\ runner.closeAttempts = 1
       /\ ~runner.report_error =>
             /\ File("token_report", 0) \in runner.files
             /\ runner.token_report =
                   _generate_token_report(TRUE, runner.store)

\* A runner has returned after its second decision raised with two records
\* persisted, the second of them after the last live report.
C11_Witness ==
    /\ runner.pc = "returned"
    /\ runner.failure = "step"
    /\ runner.steps_taken = 1
    /\ ~runner.report_error
    /\ Len(runner.store) = 2
    /\ File("observation_trace", 1) \notin runner.files
    /\ runner.token_report.api_calls = 2
    /\ runner.token_report.total_tokens = 4

\* The count a record contributes under one key of usage: the number stored
\* there, or zero when the record has no usage or no such key.
TokensOf(rec, key) ==
    IF rec.usage.shape = "dict" /\ rec.usage[key][1] = "int"
    THEN rec.usage[key][2] ELSE 0

\* The cost a record contributes: its cost, or zero when it has none.
CostOf(rec) == IF rec.cost[1] = "int" THEN rec.cost[2] ELSE 0

\* The sum of a sequence of numbers.
RECURSIVE SumOf(_)
SumOf(ns) == IF ns = <<>> THEN 0 ELSE Head(ns) + SumOf(Tail(ns))

\* The sum over the records of a store of what they hold under a key of
\* usage, and of their costs.
SumTokens(store, key) ==
    SumOf([k \in 1..Len(store) |-> TokensOf(store[k], key)])
SumCost(store) == SumOf([k \in 1..Len(store) |-> CostOf(store[k])])

\* The last report was read from records of API calls only.
ReadValid ==
    /\ aggregation.calls >= 1
    /\ aggregation.dir
    /\ \A k \in 1..Len(aggregation.read) : aggregation.read[k] \in ValidRecords

\* C12: for every store of API-call records the report has total_tokens,
\* total_prompt_tokens and total_completion_tokens equal to the sums of the
\* records' usage counts, total_cost equal to the sum of their costs and
\* api_calls equal to their number, a record without usage or without cost
\* contributing zero.
C12_ReportIsSum ==
    ReadValid =>
       /\ aggregation.report.api_calls = Len(aggregation.read)
       /\ aggregation.report.total_tokens =
             SumTokens(aggregation.read, "total_tokens")
       /\ aggregation.report.total_prompt_tokens =
             SumTokens(aggregation.read, "prompt_tokens")
       /\ aggregation.report.total_completion_tokens =
             SumTokens(aggregation.read, "completion_tokens")
       /\ aggregation.report.total_cost = SumCost(aggregation.read)

\* The report of two records: one with neither usage nor cost, one whose
\* usage has no total_tokens.
C12_Witness ==
    /\ ReadValid
    /\ Len(aggregation.read) = 2
    /\ aggregation.read[1].usage = NoUsage
    /\ aggregation.read[1].cost = Missing
    /\ aggregation.read[2].usage = Usage(Num(2), Num(1), Missing)
    /\ aggregation.read[2].cost = Num(3)
    /\ aggregation.report.total_prompt_tokens = 2
    /\ aggregation.report.total_tokens = 0
    /\ aggregation.report.total_cost = 3

\* The records of API calls among the files of a store.
ValidOnly(store) == SelectSeq(store, LAMBDA rec : rec \in ValidRecords)

\* C13 as stated: the report of a store that holds records of API calls
\* beside any number of malformed files is the report of the records of
\* API calls alone: call count, token sums, cost and per-method counts.
C13_MalformedSkipped ==
    (aggregation.calls >= 1 /\ aggregation.dir) =>
       aggregation.report =
          _generate_token_report(TRUE, ValidOnly(aggregation.read))

C15_RunOnce ==
    [][\A i \in Sessions :
          /\ pc[i] # "pending" => pc'[i] # "pending"
          /\ (pc'[i] = "entry" /\ pc[i] # "entry") => pc[i] = "pending"
          /\ failure[i] # "none" =>
                /\ failure'[i] = failure[i]
                /\ pc'[i] \in {"closing", "tick", "notify", "done"}
          /\ closeCall[i] # "none" =>
                /\ pc'[i] \notin {"entry", "setup", "observe", "step"}
                /\ closeCall'[i] # "none"
                /\ closeCall'[i] = "running" => closeCall[i] = "running"]_vars

\* Both sessions of a batch failed, one in setup and one in a step, and
\* both tasks have ended.
C15_Witness ==
    /\ total = 2
    /\ failure[1] = "step"
    /\ failure[2] = "setup"
    /\ pc[1] = "done"
    /\ pc[2] = "done"
    /\ barrier = "resolved"

\* C16: sessions are admitted in the order of the input batch: a session
\* that has been admitted has every earlier session admitted before it.
\* (The order of completion is free: C16_Witness.)
C16_AdmissionInOrder ==
    \A i \in Sessions : \A j \in Sessions :
       (i < j /\ pc[j] # "pending") => pc[i] # "pending"

\* The second session has completed while the first, admitted before it,
\* is still in its step loop, and the third is admitted in its turn.
C16_Witness ==
    /\ total = 3
    /\ concurrency = 2
    /\ pc[1] = "step"
    /\ pc[2] = "done"
    /\ pc[3] = "entry"

\* The wait for env.close() is over: teardown has been attempted.
TeardownOver == runner.pc = "returned"

StepArtifacts == {"simp_html", "raw_html", "observation_trace"}

\* The step indices under which an artifact was written, in the order of
\* the writes.
WrittenIndices(name) ==
    LET w == SelectSeq(runner.log, LAMBDA f : f[1] = name)
    IN  [k \in 1..Len(w) |-> w[k][2]]

\* The step indices under which an artifact exists.
ExistingIndices(name) == {k \in 0..MaxSteps + 1 : File(name, k) \in runner.files}

\* Every artifact was written under the indices 0, 1, 2, ... in this
\* order, none left out and none written twice.
InStepOrder ==
    \A name \in StepArtifacts :
       /\ WrittenIndices(name) = [k \in 1..Len(WrittenIndices(name)) |-> k - 1]
       /\ ExistingIndices(name) = {k - 1 : k \in 1..Len(WrittenIndices(name))}

\* C18 as stated: the artifacts are written in step order, and when the
\* runner returns with steps_taken = n, the artifacts of exactly the
\* indices 0..n-1 exist.
C18_ExactlyCompletedSteps ==
    /\ InStepOrder
    /\ runner.pc = "returned" =>
          \A name \in StepArtifacts :
             ExistingIndices(name) = {k \in 0..MaxSteps : k < runner.steps_taken}

\* C18 amended: the artifacts are written in step order; when the runner
\* returns without failure with steps_taken = n, those of exactly the
\* indices 0..n-1 exist; when it returns after a failure, those of the
\* indices 0..n-1 exist and, of the step that failed, simp_html_n, raw_html_n
\* and observation_trace_n as far as the step got.
C18_StepArtifacts ==
    /\ InStepOrder
    /\ \A name \in StepArtifacts :
          /\ {k \in 0..MaxSteps : k < runner.steps_taken}
                \subseteq ExistingIndices(name)
          /\ ExistingIndices(name) \subseteq 0..runner.steps_taken
    /\ File("observation_trace", runner.steps_taken) \in runner.files
          => File("raw_html", runner.steps_taken) \in runner.files
    /\ File("raw_html", runner.steps_taken) \in runner.files
          => File("simp_html", runner.steps_taken) \in runner.files
    /\ File("simp_html", runner.steps_taken) \in runner.files
          => \/ runner.pc \in {"content", "forward", "step"}
             \/ runner.failure = "step"
    /\ (runner.pc = "returned" /\ runner.failure = "none") =>
          \A name \in StepArtifacts :
             ExistingIndices(name) = {k \in 0..MaxSteps : k < runner.steps_taken}

\* A runner has returned after two completed steps, with the artifacts of
\* the indices 0 and 1.
C18_Witness ==
    /\ runner.pc = "returned"
    /\ runner.failure = "none"
    /\ runner.steps_taken = 2
    /\ \A name \in StepArtifacts : WrittenIndices(name) = <<0, 1>>

\* The entries keyed by exactly the name looked up.
ExactEntries ==
    {k \in 1..Len(MODEL_PRICING) : MODEL_PRICING[k].key = lookup.model_name}

\* The entries whose key contains the name looked up or is contained in it.
SubstringEntries ==
    {k \in 1..Len(MODEL_PRICING) :
        \/ Contains(MODEL_PRICING[k].key, lookup.model_name)
        \/ Contains(lookup.model_name, MODEL_PRICING[k].key)}

\* C19: get_pricing returns the rates of the entry keyed by exactly the
\* name when there is one; otherwise those of an entry whose key contains
\* the name or is contained in it when there is one; and the default rates,
\* with the warning, if and only if there is neither.
C19_ExactSubstringDefault ==
    lookup.pc = "returned" =>
       /\ ExactEntries # {} =>
             \E k \in ExactEntries : lookup.result = Rates(MODEL_PRICING[k])
       /\ (ExactEntries = {} /\ SubstringEntries # {}) =>
             \E k \in SubstringEntries :
                lookup.result = Rates(MODEL_PRICING[k])
       /\ lookup.result = DefaultRates <=> SubstringEntries = {}
       /\ lookup.result.warning <=> SubstringEntries = {}

\* "gpt-5-mini" was looked up: it has an entry of its own, after the entry
\* "gpt-5" whose key it contains, and the rates returned are its own.
C19_Witness ==
    /\ lookup.pc = "returned"
    /\ lookup.model_name = <<"g", "p", "t", "-", "5", "-", "m", "i", "n", "i">>
    /\ Cardinality(ExactEntries) = 1
    /\ \E k \in SubstringEntries : \A j \in ExactEntries : k < j
    /\ lookup.result = [input |-> 15, output |-> 60, warning |-> FALSE]

\* The runner failed on the way to the step loop: WebAgentEnv(...) raised,
\* or AgentPolicy(...), env.setup or the setup hook did.
FailedBeforeLoop ==
    \/ runner.pc = "raised" /\ runner.entry_ok
    \/ runner.failure = "setup"

\* C20 as stated: a failure while constructing the environment or the
\* policy, in env.setup or in the setup hook makes the session Failed (the
\* error is handled by the runner) with the step loop skipped: no step
\* artifact, no decision, no action; and env.close() is still called.
C20_SetupFailureClosed ==
    FailedBeforeLoop =>
       /\ runner.failure = "setup"
       /\ runner.pc \in {"closing", "returned"}
       /\ runner.closeAttempts = 1
       /\ runner.log = <<>>
       /\ runner.store = <<>>
       /\ runner.steps_taken = 0
       /\ runner.files \subseteq {File("basic_info", 0), File("error", 0),
                                  File("token_report", 0)}

\* How often an operation of the step loop was made.
Count(name) == Len(SelectSeq(runner.ops, LAMBDA o : o[1] = name))

\* The runner is inside an iteration of the step loop.
InLoop == runner.pc \in {"content", "forward", "step"}

\* The try block of the runner has ended without failure.
LoopLeft == runner.pc \in {"closing", "returned"} /\ runner.failure = "none"

\* C21: steps_taken never exceeds max_steps; in a session that does not
\* fail the number of applied actions equals steps_taken, the loop goes on
\* while the counter is below max_steps and the last applied action did not
\* report termination, and it has ended only when one of the two holds.
C21_LoopExit ==
    /\ runner.steps_taken <= runner.max_steps
    /\ runner.failure = "none" =>
          /\ Count("applied") = runner.steps_taken
          /\ InLoop =>
                /\ runner.steps_taken < runner.max_steps
                /\ runner.steps_taken >= 1 => runner.obs = "live"
          /\ LoopLeft =>
                \/ runner.steps_taken = runner.max_steps
                \/ runner.steps_taken >= 1 /\ runner.obs = "terminated"

\* The loop was left on termination after one of two allowed steps.
C21_Witness ==
    /\ LoopLeft
    /\ runner.pc = "returned"
    /\ runner.max_steps = 2
    /\ runner.steps_taken = 1
    /\ runner.obs = "terminated"
    /\ Count("applied") = 1

\* The operations made in the iteration of step index k, in their order.
IterationOps(k) == SelectSeq(runner.ops, LAMBDA o : o[2] = k)

\* a is an initial part of b.
IsPrefix(a, b) == Len(a) <= Len(b) /\ a = SubSeq(b, 1, Len(a))

\* The names of a sequence of operations.
Names(seq) == [n \in 1..Len(seq) |-> seq[n][1]]

\* The iterations follow each other in the order of their indices.
IterationsInOrder ==
    \A m, n \in 1..Len(runner.ops) :
       m < n => runner.ops[m][2] <= runner.ops[n][2]

\* C22 as stated: in every iteration the observation and the snapshots are
\* persisted, the decision is invoked, the action and the memory are
\* persisted, the action is applied, the live token report is computed and
\* saved, the counter is incremented: the report of step i follows the
\* application of the action of step i.
C22_ReportAfterStep ==
    /\ IterationsInOrder
    /\ \A k \in 0..MaxSteps :
          IsPrefix(Names(IterationOps(k)),
                   <<"observation", "snapshot", "forward", "action_trace",
                     "memory_trace", "step", "applied", "token_report",
                     "increment">>)

\* C22 amended: the same order except that the live token report of step i
\* is computed and saved after the decision of step i and before its action
\* is applied.
C22_ReportBeforeStep ==
    /\ IterationsInOrder
    /\ \A k \in 0..MaxSteps :
          IsPrefix(Names(IterationOps(k)),
                   <<"observation", "snapshot", "forward", "action_trace",
                     "memory_trace", "token_report", "step", "applied",
                     "increment">>)
    /\ runner.pc = "step" =>
          /\ Count("token_report") = runner.steps_taken + 1
          /\ Count("applied") = runner.steps_taken
          /\ runner.token_report = _generate_token_report(TRUE, runner.store)

\* In the second iteration the live report covering the records of both
\* decisions is saved while env.step has not yet returned.
C22_Witness ==
    /\ runner.pc = "step"
    /\ runner.steps_taken = 1
    /\ Len(runner.store) = 2
    /\ runner.token_report.api_calls = 2
    /\ Names(IterationOps(1)) =
          <<"observation", "snapshot", "forward", "action_trace",
            "memory_trace", "token_report", "step">>

\* The listings made so far.
ListingsMade ==
    {l \in {traversal.aggregator, traversal.load_api_traces,
            traversal.format_api_trace_files} : l.state # "none"}

\* C23 as stated: every listing of a session's API-call records, by the
\* aggregator and by the two tools, ends without an exception, visits the
\* records in increasing sequence number (2 before 10), and visits exactly
\* the files that are well formed in name and content.
C23_NumericOrderSkipping ==
    \A l \in ListingsMade :
       /\ l.state = "done"
       /\ \A m, n \in 1..Len(l.visited) :
             m < n => l.visited[m].seq < l.visited[n].seq
       /\ {l.visited[n] : n \in 1..Len(l.visited)} =
             {f \in traversal.files : f.numeric /\ f.parses}

\* The sessions whose runner returned and whose tick has begun.
Ticked == {i \in Sessions : pc[i] \in {"notify", "done"}}

\* What C24 says of a state when the callback raises: the counter holds
\* one increment per session that ticked, the lock is held only by a
\* session inside its tick, and a session past its tick has its runner's
\* result as outcome, in the task and in the resolved barrier.
C24_State ==
    (on_progress /\ callback = "raises") =>
       /\ done = Cardinality(Ticked)
       /\ lock # 0 => pc[lock] = "notify"
       /\ \A i \in Sessions :
             pc[i] = "done" =>
                /\ outcome[i] = TraceDir(i)
                /\ barrier = "resolved" => results[i] = TraceDir(i)

\* C24: an on_progress callback that raises is swallowed inside the
\* critical section: the counter keeps its increments, the lock is
\* released, the session's outcome is its runner's result, and every
\* session still completes, so that the barrier resolves.
C24_CallbackSwallowed ==
    /\ []C24_State
    /\ <>(barrier = "resolved")

\* Both callbacks of a batch of two raised; both sessions completed with
\* their trace directories and the counter is 2.
C24_Witness ==
    /\ callback = "raises"
    /\ total = 2
    /\ barrier = "resolved"
    /\ done = 2
    /\ lock = 0
    /\ progressCalls = <<1, 2>>
    /\ results = <<TraceDir(1), TraceDir(2)>>

\* C25 as stated: once an observation has reported termination, the
\* initial one included, no decision step is invoked and no action is
\* applied: the runner is not waiting for policy.forward or env.step while
\* the last observation reports termination.
C25_NoStepAfterTermination ==
    runner.obs = "terminated" => runner.pc \notin {"forward", "step"}

\* The sum of the counts of a dict over a set of its keys.
RECURSIVE SumCounts(_, _)
SumCounts(counts, keys) ==
    IF keys = {} THEN 0
    ELSE LET key == CHOOSE m \in keys : TRUE
         IN  counts[key] + SumCounts(counts, keys \ {key})

\* C26 as stated: in every report of _generate_token_report, for every
\* content of the store, api_calls equals the sum of the counts in
\* method_calls.
C26_CallsEqualMethodCalls ==
    (aggregation.calls >= 1 /\ aggregation.dir) =>
       aggregation.report.api_calls =
          SumCounts(aggregation.report.method_calls, MethodKeys)

====
